---- MODULE Spec2Model ----
(***************************************************************************)
(* Model of the msi-reader name decoder (src/msi-reader/src/lib.rs, module *)
(* directory, and its copy in src/msi-reader/src/main.rs).                 *)
(*                                                                         *)
(* A Rust &str is modelled as a sequence of characters; every character    *)
(* has a UTF-8 width, str::find returns a BYTE offset and slicing takes    *)
(* byte offsets and panics when an offset is out of range or not on a      *)
(* character boundary.  A call either returns a value (Ok) or panics.      *)
(***************************************************************************)
EXTENDS Integers, Sequences, FiniteSets, TLC

VARIABLES input, dir, name, srcView, tgtView,
          mdir, mname, msrcView, mtgtView, last, first

vars == <<input, dir, name, srcView, tgtView,
          mdir, mname, msrcView, mtgtView, last, first>>

libVars == <<dir, name, srcView, tgtView>>
mainVars == <<mdir, mname, msrcView, mtgtView>>

----------------------------------------------------------------------------
(* Bounds *)

MaxLen == 4
MaxLenMain == 2
MaxLenRepeat == 2

----------------------------------------------------------------------------
(* Strings *)

Colon == ":"
Pipe == "|"
Dot == <<".">>

\* the characters the bounded inputs are built from; "é" is two bytes wide
Alphabet == {":", "|", ".", "é"}

MultiByte == {"é"}

Utf8Len(c) == IF c \in MultiByte THEN 2 ELSE 1

StringsUpTo(n) == UNION {[1..k -> Alphabet] : k \in 0..n}

\* the literal inputs of the unit tests, and the two-level example
Scenarios ==
  { <<".", ":", "A", "l", "p", "h", "a">>,
    <<".", ":", "P", "R", "O", "G", "R", "A", "~", "1", "|", "P", "r", "o", "g", "r", "a", "m", " ", "F", "i", "l", "e", "s", " ", "(", "x", "8", "6", ")">>,
    <<"S", "R", "C", "D", "I", "R", "|", "S", "o", "u", "r", "c", "e", "D", "i", "r", ":", "A", "l", "p", "h", "a">>,
    <<"T", "A", "R", "G", "E", "T", "D", "I", "R">>,
    <<"A", ":", "B", "|", "C", ":", "D">> }

RECURSIVE ByteLen(_)
ByteLen(s) == IF s = <<>> THEN 0 ELSE Utf8Len(Head(s)) + ByteLen(Tail(s))

\* byte offset at which character k of s starts (k = Len(s)+1: the end)
Offset(s, k) == ByteLen(SubSeq(s, 1, k - 1))

is_char_boundary(s, b) == \E k \in 1..(Len(s) + 1) : Offset(s, k) = b

CharAt(s, b) == CHOOSE k \in 1..(Len(s) + 1) : Offset(s, k) = b

----------------------------------------------------------------------------
(* Values *)

Ok(v) == [ok |-> TRUE, val |-> v]
Panicked == [ok |-> FALSE]

Some(v) == [some |-> TRUE, val |-> v]
None == [some |-> FALSE]

\* r, then f on its value, unless r panicked
Bind(r, F(_)) == IF r.ok THEN F(r.val) ELSE Panicked

\* mutant: the LAST match (str::rfind)
find_last(s, c) ==
  IF \E k \in 1..Len(s) : s[k] = c
  THEN Some(Offset(s, CHOOSE k \in 1..Len(s) :
                        s[k] = c /\ \A j \in (k + 1)..Len(s) : s[j] # c))
  ELSE None

\* str::find(char): byte offset of the first match
find(s, c) ==
  IF \E k \in 1..Len(s) : s[k] = c
  THEN Some(Offset(s, CHOOSE k \in 1..Len(s) :
                        s[k] = c /\ \A j \in 1..(k - 1) : s[j] # c))
  ELSE None

\* &s[from..to], byte offsets
Slice(s, from, to) ==
  IF from <= to /\ to <= ByteLen(s)
     /\ is_char_boundary(s, from) /\ is_char_boundary(s, to)
  THEN Ok(SubSeq(s, CharAt(s, from), CharAt(s, to) - 1))
  ELSE Panicked

\* the literals of the format strings
LitSource == <<"s", "o", "u", "r", "c", "e", " ", "=", " ", "[">>
LitTarget == <<"]", ",", " ", "t", "a", "r", "g", "e", "t", " ", "=", " ", "[">>
LitClose == <<"]">>
LitShort == <<"s", "h", "o", "r", "t", " ", "=", " ">>
LitLong == <<",", " ", "l", "o", "n", "g", " ", "=", " ">>

----------------------------------------------------------------------------
(* lib.rs, module directory *)

MsiDirectoryName_from(combined) == [combined |-> combined]

MsiName_from(combined) == [combined |-> combined]

source(self) ==
  LET index == find(self.combined, Colon) IN
  IF index.some
  THEN Bind(Slice(self.combined, 0, index.val),
            LAMBDA t : Ok(Some(MsiName_from(t))))
  ELSE Ok(None)

\* mutant: the text after the last ':' (the trailing segment split again)
target_resplit(self) ==
  LET index == find_last(self.combined, Colon) IN
  IF index.some
  THEN Bind(Slice(self.combined, index.val + 1, ByteLen(self.combined)),
            LAMBDA t : Ok(MsiName_from(t)))
  ELSE Ok(MsiName_from(self.combined))

target(self) ==
  LET index == find(self.combined, Colon) IN
  IF index.some
  THEN Bind(Slice(self.combined, index.val + 1, ByteLen(self.combined)),
            LAMBDA t : Ok(MsiName_from(t)))
  ELSE Ok(MsiName_from(self.combined))

MsiDirectoryName_combined(self) == Ok(self.combined)

\* mutant: the separator is kept in the long name
long_keepsep(self) ==
  LET index == find(self.combined, Pipe) IN
  IF index.some
  THEN Slice(self.combined, index.val, ByteLen(self.combined))
  ELSE Ok(self.combined)

\* mutant: the slice starts one byte too far
long_skip2(self) ==
  LET index == find(self.combined, Pipe) IN
  IF index.some
  THEN Slice(self.combined, index.val + 2, ByteLen(self.combined))
  ELSE Ok(self.combined)

long(self) ==
  LET index == find(self.combined, Pipe) IN
  IF index.some
  THEN Slice(self.combined, index.val + 1, ByteLen(self.combined))
  ELSE Ok(self.combined)

\* mutant: an empty short name is reported as absent
short_empty_absent(self) ==
  LET index == find(self.combined, Pipe) IN
  IF index.some /\ index.val > 0
  THEN Bind(Slice(self.combined, 0, index.val), LAMBDA t : Ok(Some(t)))
  ELSE Ok(None)

short(self) ==
  LET index == find(self.combined, Pipe) IN
  IF index.some
  THEN Bind(Slice(self.combined, 0, index.val), LAMBDA t : Ok(Some(t)))
  ELSE Ok(None)

MsiName_combined(self) == Ok(self.combined)

\* mutant: only the long name is looked at
is_located_at_parent_long_only(self) ==
  Bind(long(self), LAMBDA l : Ok(l = Dot))

is_located_at_parent(self) ==
  Bind(long(self), LAMBDA l :
    IF l = Dot
    THEN Ok(TRUE)
    ELSE Bind(short(self), LAMBDA src :
           IF src.some THEN Ok(src.val = Dot) ELSE Ok(FALSE)))

MsiName_debug(self) == Bind(MsiName_combined(self), LAMBDA c : Ok(c))

\* mutant: an empty short name is left out of the rendering
MsiName_display_skip_empty(self) ==
  Bind(short(self), LAMBDA sh :
    IF sh.some /\ sh.val # <<>>
    THEN Bind(long(self), LAMBDA l : Ok(LitShort \o sh.val \o LitLong \o l))
    ELSE Bind(long(self), LAMBDA l : Ok(l)))

MsiName_display(self) ==
  Bind(short(self), LAMBDA sh :
    IF sh.some
    THEN Bind(long(self), LAMBDA l : Ok(LitShort \o sh.val \o LitLong \o l))
    ELSE Bind(long(self), LAMBDA l : Ok(l)))

MsiDirectoryName_debug(self) ==
  Bind(MsiDirectoryName_combined(self), LAMBDA c : Ok(c))

\* mutant: the parts are rendered raw
MsiDirectoryName_display_raw(self) ==
  Bind(source(self), LAMBDA so :
    IF so.some
    THEN Bind(MsiName_debug(so.val), LAMBDA sd :
           Bind(target(self), LAMBDA t :
             Bind(MsiName_debug(t), LAMBDA td :
               Ok(LitSource \o sd \o LitTarget \o td \o LitClose))))
    ELSE Bind(target(self), LAMBDA t : MsiName_debug(t)))

MsiDirectoryName_display(self) ==
  Bind(source(self), LAMBDA so :
    IF so.some
    THEN Bind(MsiName_display(so.val), LAMBDA sd :
           Bind(target(self), LAMBDA t :
             Bind(MsiName_display(t), LAMBDA td :
               Ok(LitSource \o sd \o LitTarget \o td \o LitClose))))
    ELSE Bind(target(self), LAMBDA t : MsiName_display(t)))

----------------------------------------------------------------------------
(* main.rs: the second copy of the two types *)

main_MsiDirectoryName_from(combined) == [combined |-> combined]

main_MsiName_from(combined) == [combined |-> combined]

main_source(self) ==
  LET index == find(self.combined, Colon) IN
  IF index.some
  THEN Bind(Slice(self.combined, 0, index.val),
            LAMBDA t : Ok(Some(main_MsiName_from(t))))
  ELSE Ok(None)

\* mutant: the ':' is kept in the target
main_target_keepsep(self) ==
  LET index == find(self.combined, Colon) IN
  IF index.some
  THEN Bind(Slice(self.combined, index.val, ByteLen(self.combined)),
            LAMBDA t : Ok(main_MsiName_from(t)))
  ELSE Ok(main_MsiName_from(self.combined))

main_target(self) ==
  LET index == find(self.combined, Colon) IN
  IF index.some
  THEN Bind(Slice(self.combined, index.val + 1, ByteLen(self.combined)),
            LAMBDA t : Ok(main_MsiName_from(t)))
  ELSE Ok(main_MsiName_from(self.combined))

main_combined(self) == Ok(self.combined)

main_long(self) ==
  LET index == find(self.combined, Pipe) IN
  IF index.some
  THEN Slice(self.combined, index.val + 1, ByteLen(self.combined))
  ELSE Ok(self.combined)

main_short(self) ==
  LET index == find(self.combined, Pipe) IN
  IF index.some
  THEN Bind(Slice(self.combined, 0, index.val), LAMBDA t : Ok(Some(t)))
  ELSE Ok(None)

main_MsiName_combined(self) == Ok(self.combined)

main_MsiName_debug(self) == Bind(main_MsiName_combined(self), LAMBDA c : Ok(c))

main_MsiName_display(self) ==
  Bind(main_short(self), LAMBDA sh :
    IF sh.some
    THEN Bind(main_long(self), LAMBDA l :
           Ok(LitShort \o sh.val \o LitLong \o l))
    ELSE Bind(main_long(self), LAMBDA l : Ok(l)))

main_MsiDirectoryName_debug(self) ==
  Bind(main_combined(self), LAMBDA c : Ok(c))

main_MsiDirectoryName_display(self) ==
  Bind(main_source(self), LAMBDA so :
    IF so.some
    THEN Bind(main_MsiName_display(so.val), LAMBDA sd :
           Bind(main_target(self), LAMBDA t :
             Bind(main_MsiName_display(t), LAMBDA td :
               Ok(LitSource \o sd \o LitTarget \o td \o LitClose))))
    ELSE Bind(main_target(self), LAMBDA t : main_MsiName_display(t)))

----------------------------------------------------------------------------
(* The caller: it owns the text, builds the views and calls the accessors *)

Receivers == {"direct", "source", "target"}

NoCall == [copy |-> "none", op |-> "none", recv |-> "none", result |-> Panicked]
Untracked == [copy |-> "off", op |-> "off", recv |-> "off", result |-> Panicked]

NotDerived == [derived |-> FALSE]
Derived(v) == [derived |-> TRUE, val |-> v]

Call(copy, op, recv, result) ==
  [copy |-> copy, op |-> op, recv |-> recv, result |-> result]

\* the receiver is a view the caller holds
Held(recv) ==
  \/ recv = "direct"
  \/ recv = "source" /\ srcView.derived /\ srcView.val.some
  \/ recv = "target" /\ tgtView.derived

Receiver(recv) ==
  IF recv = "direct" THEN name
  ELSE IF recv = "source" THEN srcView.val.val
  ELSE tgtView.val

main_Held(recv) ==
  \/ recv = "direct"
  \/ recv = "source" /\ msrcView.derived /\ msrcView.val.some
  \/ recv = "target" /\ mtgtView.derived

main_Receiver(recv) ==
  IF recv = "direct" THEN mname
  ELSE IF recv = "source" THEN msrcView.val.val
  ELSE mtgtView.val

\* the call is recorded; the first call of a run that is being followed is kept
Record(c) ==
  /\ last' = c
  /\ \E track \in (IF first = NoCall THEN BOOLEAN ELSE {FALSE}) :
       first' = IF track THEN c ELSE first

InitWith(inputs, tracking) ==
  /\ input \in inputs
  /\ dir = MsiDirectoryName_from(input)
  /\ name = MsiName_from(input)
  /\ srcView = NotDerived
  /\ tgtView = NotDerived
  /\ mdir = main_MsiDirectoryName_from(input)
  /\ mname = main_MsiName_from(input)
  /\ msrcView = NotDerived
  /\ mtgtView = NotDerived
  /\ last = NoCall
  /\ first = IF tracking THEN NoCall ELSE Untracked

Init == InitWith(StringsUpTo(MaxLen) \cup Scenarios, FALSE)

CallSource ==
  LET r == source(dir) IN
  /\ srcView' = IF r.ok THEN Derived(r.val) ELSE srcView
  /\ Record(Call("lib", "source", "dir", r))
  /\ UNCHANGED <<input, dir, name, tgtView, mainVars>>

\* mutant: the call consumes the source part of the stored text
CallTarget_consuming ==
  LET r == target(dir) IN
  /\ tgtView' = IF r.ok THEN Derived(r.val) ELSE tgtView
  /\ dir' = IF r.ok THEN MsiDirectoryName_from(r.val.combined) ELSE dir
  /\ Record(Call("lib", "target", "dir", r))
  /\ UNCHANGED <<input, name, srcView, mainVars>>

CallTarget ==
  LET r == target(dir) IN
  /\ tgtView' = IF r.ok THEN Derived(r.val) ELSE tgtView
  /\ Record(Call("lib", "target", "dir", r))
  /\ UNCHANGED <<input, dir, name, srcView, mainVars>>

CallCombined ==
  /\ Record(Call("lib", "combined", "dir", MsiDirectoryName_combined(dir)))
  /\ UNCHANGED <<input, libVars, mainVars>>

CallDebug ==
  /\ Record(Call("lib", "debug", "dir", MsiDirectoryName_debug(dir)))
  /\ UNCHANGED <<input, libVars, mainVars>>

CallDisplay ==
  /\ Record(Call("lib", "display", "dir", MsiDirectoryName_display(dir)))
  /\ UNCHANGED <<input, libVars, mainVars>>

CallLong(recv) ==
  /\ Held(recv)
  /\ Record(Call("lib", "long", recv, long(Receiver(recv))))
  /\ UNCHANGED <<input, libVars, mainVars>>

CallShort(recv) ==
  /\ Held(recv)
  /\ Record(Call("lib", "short", recv, short(Receiver(recv))))
  /\ UNCHANGED <<input, libVars, mainVars>>

CallNameCombined(recv) ==
  /\ Held(recv)
  /\ Record(Call("lib", "name_combined", recv, MsiName_combined(Receiver(recv))))
  /\ UNCHANGED <<input, libVars, mainVars>>

CallIsLocatedAtParent(recv) ==
  /\ Held(recv)
  /\ Record(Call("lib", "is_located_at_parent", recv,
                 is_located_at_parent(Receiver(recv))))
  /\ UNCHANGED <<input, libVars, mainVars>>

CallNameDebug(recv) ==
  /\ Held(recv)
  /\ Record(Call("lib", "name_debug", recv, MsiName_debug(Receiver(recv))))
  /\ UNCHANGED <<input, libVars, mainVars>>

CallNameDisplay(recv) ==
  /\ Held(recv)
  /\ Record(Call("lib", "name_display", recv, MsiName_display(Receiver(recv))))
  /\ UNCHANGED <<input, libVars, mainVars>>

Next ==
  \/ CallSource
  \/ CallTarget
  \/ CallCombined
  \/ CallDebug
  \/ CallDisplay
  \/ \E recv \in Receivers : CallLong(recv)
  \/ \E recv \in Receivers : CallShort(recv)
  \/ \E recv \in Receivers : CallNameCombined(recv)
  \/ \E recv \in Receivers : CallIsLocatedAtParent(recv)
  \/ \E recv \in Receivers : CallNameDebug(recv)
  \/ \E recv \in Receivers : CallNameDisplay(recv)

Spec == Init /\ [][Next]_vars

\* the same calls, one call of the run followed
InitRepeat == InitWith(StringsUpTo(MaxLenRepeat) \cup Scenarios, TRUE)

SpecRepeat == InitRepeat /\ [][Next]_vars

----------------------------------------------------------------------------
(* The calls on the main.rs copy *)

MainCallSource ==
  LET r == main_source(mdir) IN
  /\ msrcView' = IF r.ok THEN Derived(r.val) ELSE msrcView
  /\ Record(Call("main", "source", "dir", r))
  /\ UNCHANGED <<input, libVars, mdir, mname, mtgtView>>

MainCallTarget ==
  LET r == main_target(mdir) IN
  /\ mtgtView' = IF r.ok THEN Derived(r.val) ELSE mtgtView
  /\ Record(Call("main", "target", "dir", r))
  /\ UNCHANGED <<input, libVars, mdir, mname, msrcView>>

MainCallCombined ==
  /\ Record(Call("main", "combined", "dir", main_combined(mdir)))
  /\ UNCHANGED <<input, libVars, mainVars>>

MainCallDebug ==
  /\ Record(Call("main", "debug", "dir", main_MsiDirectoryName_debug(mdir)))
  /\ UNCHANGED <<input, libVars, mainVars>>

MainCallDisplay ==
  /\ Record(Call("main", "display", "dir", main_MsiDirectoryName_display(mdir)))
  /\ UNCHANGED <<input, libVars, mainVars>>

MainCallLong(recv) ==
  /\ main_Held(recv)
  /\ Record(Call("main", "long", recv, main_long(main_Receiver(recv))))
  /\ UNCHANGED <<input, libVars, mainVars>>

MainCallShort(recv) ==
  /\ main_Held(recv)
  /\ Record(Call("main", "short", recv, main_short(main_Receiver(recv))))
  /\ UNCHANGED <<input, libVars, mainVars>>

MainCallNameCombined(recv) ==
  /\ main_Held(recv)
  /\ Record(Call("main", "name_combined", recv,
                 main_MsiName_combined(main_Receiver(recv))))
  /\ UNCHANGED <<input, libVars, mainVars>>

MainCallNameDebug(recv) ==
  /\ main_Held(recv)
  /\ Record(Call("main", "name_debug", recv,
                 main_MsiName_debug(main_Receiver(recv))))
  /\ UNCHANGED <<input, libVars, mainVars>>

MainCallNameDisplay(recv) ==
  /\ main_Held(recv)
  /\ Record(Call("main", "name_display", recv,
                 main_MsiName_display(main_Receiver(recv))))
  /\ UNCHANGED <<input, libVars, mainVars>>

InitMain == InitWith(StringsUpTo(MaxLenMain) \cup Scenarios, FALSE)

NextMain ==
  \/ Next
  \/ MainCallSource
  \/ MainCallTarget
  \/ MainCallCombined
  \/ MainCallDebug
  \/ MainCallDisplay
  \/ \E recv \in Receivers : MainCallLong(recv)
  \/ \E recv \in Receivers : MainCallShort(recv)
  \/ \E recv \in Receivers : MainCallNameCombined(recv)
  \/ \E recv \in Receivers : MainCallNameDebug(recv)
  \/ \E recv \in Receivers : MainCallNameDisplay(recv)

SpecMain == InitMain /\ [][NextMain]_vars

----------------------------------------------------------------------------
(* The statements checked.  They are written with character positions and *)
(* SubSeq, not with find and Slice.                                        *)

Has(s, c) == \E k \in 1..Len(s) : s[k] = c

Count(s, c) == Cardinality({k \in 1..Len(s) : s[k] = c})

FirstIdx(s, c) == CHOOSE k \in 1..Len(s) : s[k] = c /\ ~Has(SubSeq(s, 1, k - 1), c)

Before(s, c) == SubSeq(s, 1, FirstIdx(s, c) - 1)

After(s, c) == SubSeq(s, FirstIdx(s, c) + 1, Len(s))

\* the text of the name the last call was made on
LastName == Receiver(last.recv).combined

Rendering(n) ==
  IF Has(n, Pipe)
  THEN <<"s", "h", "o", "r", "t", " ", "=", " ">> \o Before(n, Pipe)
       \o <<",", " ", "l", "o", "n", "g", " ", "=", " ">> \o After(n, Pipe)
  ELSE n

DirRendering(s) ==
  IF Has(s, Colon)
  THEN <<"s", "o", "u", "r", "c", "e", " ", "=", " ", "[">>
       \o Rendering(Before(s, Colon))
       \o <<"]", ",", " ", "t", "a", "r", "g", "e", "t", " ", "=", " ", "[">>
       \o Rendering(After(s, Colon)) \o <<"]">>
  ELSE Rendering(s)

\* C1: source() is absent iff the input has no ':'; without ':' the target
\* is the whole input; with the first ':' at position i the source is
\* s[0..i] and the target is s[i+1..].
C1_DirectorySplit ==
  /\ last.op = "source" =>
       last.result = Ok(IF Has(input, Colon)
                        THEN Some([combined |-> Before(input, Colon)])
                        ELSE None)
  /\ last.op = "target" =>
       last.result = Ok([combined |-> IF Has(input, Colon)
                                      THEN After(input, Colon) ELSE input])
  /\ srcView.derived => (srcView.val.some <=> Has(input, Colon))
  /\ last.op = "name_combined" /\ last.recv = "source" =>
       last.result = Ok(Before(input, Colon))
  /\ last.op = "name_combined" /\ last.recv = "target" =>
       last.result = Ok(IF Has(input, Colon) THEN After(input, Colon) ELSE input)

C1_Witness ==
  /\ last.op = "name_combined" /\ last.recv = "source"
  /\ tgtView.derived
  /\ Count(input, Colon) >= 2
  /\ Before(input, Colon) # <<>>

\* C2: short() is present iff the name has a '|' (present and empty when the
\* '|' is first); without '|' long() is the whole name; with the first '|'
\* at position j short() is s[0..j] and long() is s[j+1..].
C2_NameSplit ==
  /\ last.op = "short" =>
       last.result = Ok(IF Has(LastName, Pipe)
                        THEN Some(Before(LastName, Pipe)) ELSE None)
  /\ last.op = "short" /\ LastName # <<>> /\ Head(LastName) = Pipe =>
       last.result = Ok(Some(<<>>))
  /\ last.op = "long" =>
       last.result = Ok(IF Has(LastName, Pipe)
                        THEN After(LastName, Pipe) ELSE LastName)

C2_Witness ==
  /\ last.op = "short" /\ last.recv = "direct"
  /\ Len(input) >= 2 /\ Head(input) = Pipe

\* C3: is_located_at_parent() is true iff long() is ".", or long() is not
\* "." and short() is present and is "."; false for "" and for "|"; for a
\* name without '|' true only for ".".
C3_LocatedAtParent ==
  last.op = "is_located_at_parent" =>
    LET n == LastName
        l == IF Has(n, Pipe) THEN After(n, Pipe) ELSE n
        atParent == \/ l = Dot
                    \/ l # Dot /\ Has(n, Pipe) /\ Before(n, Pipe) = Dot
    IN /\ last.result = Ok(atParent)
       /\ n = <<>> => last.result = Ok(FALSE)
       /\ n = <<Pipe>> => last.result = Ok(FALSE)
       /\ ~Has(n, Pipe) => last.result = Ok(n = Dot)

C3_Witness ==
  /\ last.op = "is_located_at_parent"
  /\ last.result = Ok(TRUE)
  /\ Has(LastName, Pipe)
  /\ After(LastName, Pipe) # Dot

\* C4: every operation returns a value for every input: the empty string,
\* strings of separators only, a separator in last position; no slice is
\* out of range.
C4_Total ==
  /\ last.op # "none" => last.result.ok
  /\ source(dir).ok /\ target(dir).ok
  /\ long(name).ok /\ short(name).ok /\ is_located_at_parent(name).ok

C4_Witness ==
  /\ last.op = "long"
  /\ last.recv = "target"
  /\ LastName # <<>>
  /\ LastName[Len(LastName)] = Pipe
  /\ input[Len(input)] = Pipe
  /\ Has(input, Colon)

\* C6: only the first separator splits: with two or more ':' the target is
\* everything after the first and keeps the later ones; with two or more
\* '|' long() is everything after the first and keeps the later ones; a ':'
\* inside a target is ordinary text (target of "A:B|C:D": short "B", long
\* "C:D").
C6_FirstOccurrenceOnly ==
  /\ tgtView.derived /\ Count(input, Colon) >= 2 =>
       /\ tgtView.val.combined = After(input, Colon)
       /\ Count(tgtView.val.combined, Colon) = Count(input, Colon) - 1
  /\ last.op = "long" /\ Count(LastName, Pipe) >= 2 =>
       /\ last.result = Ok(After(LastName, Pipe))
       /\ Count(last.result.val, Pipe) = Count(LastName, Pipe) - 1
  /\ last.op = "long" /\ last.recv = "target" /\ Has(input, Colon) =>
       LET n == After(input, Colon) IN
       last.result = Ok(IF Has(n, Pipe) THEN After(n, Pipe) ELSE n)
  /\ input = <<"A", ":", "B", "|", "C", ":", "D">> /\ last.recv = "target" =>
       /\ last.op = "short" => last.result = Ok(Some(<<"B">>))
       /\ last.op = "long" => last.result = Ok(<<"C", ":", "D">>)

C6_Witness ==
  /\ last.op = "long" /\ last.recv = "target"
  /\ Count(input, Colon) >= 2
  /\ Has(After(input, Colon), Pipe)
  /\ Has(last.result.val, Colon)

\* C7: the display of a directory name is "source = [" display(source)
\* "], target = [" display(target) "]" when the input has a ':' and the
\* display of the target otherwise; the debug form is the input.
C7_DirectoryRendering ==
  /\ last.op = "display" => last.result = Ok(DirRendering(input))
  /\ last.op = "debug" => last.result = Ok(input)

C7_Witness ==
  /\ last.op = "display"
  /\ Has(input, Colon)
  /\ Has(Before(input, Colon), Pipe)

\* C8: the display of a name is "short = " short ", long = " long when the
\* name has a '|' (also when short is empty) and long() otherwise; the debug
\* form is the name.
C8_NameRendering ==
  /\ last.op = "name_display" => last.result = Ok(Rendering(LastName))
  /\ last.op = "name_debug" => last.result = Ok(LastName)

C8_Witness ==
  /\ last.op = "name_display"
  /\ LastName # <<>> /\ Head(LastName) = Pipe

\* C5: no sequence of accessor calls changes the stored text: combined() on
\* the directory name is still the input, combined() on a name is still the
\* text the name was built from, and an accessor called again returns what
\* its earlier call returned.
C5_ReadOnly ==
  /\ dir.combined = input
  /\ name.combined = input
  /\ last.op = "combined" => last.result = Ok(input)
  /\ last.op = "name_combined" /\ last.recv = "direct" => last.result = Ok(input)
  /\ first.op = "source" /\ last.op = "name_combined" /\ last.recv = "source" =>
       /\ first.result.ok /\ first.result.val.some
       /\ last.result = Ok(first.result.val.val.combined)
  /\ first.op = "target" /\ last.op = "name_combined" /\ last.recv = "target" =>
       /\ first.result.ok
       /\ last.result = Ok(first.result.val.combined)
  /\ first.op = last.op /\ first.recv = last.recv => last.result = first.result

C5_Witness ==
  /\ first.op = "target"
  /\ last.op = "name_combined" /\ last.recv = "target"
  /\ srcView.derived
  /\ Has(input, Colon)
  /\ After(input, Colon) # <<>>

\* C9: the split loses nothing and the first part has no separator: with a
\* ':' source + ":" + target is the input and the source has no ':'; with a
\* '|' short + "|" + long is the name and short has no '|'; so no two inputs
\* decode to the same (source, target), no two names to the same (short,
\* long).
C9_Lossless ==
  /\ srcView.derived /\ tgtView.derived /\ Has(input, Colon) =>
       /\ srcView.val.some
       /\ srcView.val.val.combined \o <<Colon>> \o tgtView.val.combined = input
       /\ ~Has(srcView.val.val.combined, Colon)
  /\ srcView.derived /\ tgtView.derived /\ last.op \in {"source", "target"} =>
       \A s2 \in (StringsUpTo(MaxLenRepeat) \cup Scenarios) \ {input} :
         LET d2 == MsiDirectoryName_from(s2) IN
         <<source(d2), target(d2)>> # <<Ok(srcView.val), Ok(tgtView.val)>>
  /\ first.op = "short" /\ last.op = "long" /\ first.recv = last.recv =>
       /\ Has(LastName, Pipe) =>
            /\ first.result.ok /\ first.result.val.some /\ last.result.ok
            /\ first.result.val.val \o <<Pipe>> \o last.result.val = LastName
            /\ ~Has(first.result.val.val, Pipe)
       /\ \A s2 \in (StringsUpTo(MaxLenRepeat) \cup Scenarios) \ {LastName} :
            LET n2 == MsiName_from(s2) IN
            <<short(n2), long(n2)>> # <<first.result, last.result>>

C9_Witness ==
  /\ first.op = "short" /\ last.op = "long"
  /\ first.recv = "target" /\ last.recv = "target"
  /\ srcView.derived
  /\ Has(input, Colon)
  /\ Count(LastName, Pipe) >= 1
  /\ Before(LastName, Pipe) # <<>>

\* what the lib.rs copy returns for the call, on the same input
LibName(recv) ==
  IF recv = "direct" THEN name
  ELSE IF recv = "source" THEN source(dir).val.val
  ELSE target(dir).val

LibResult(op, recv) ==
  CASE op = "source" -> source(dir)
    [] op = "target" -> target(dir)
    [] op = "combined" -> MsiDirectoryName_combined(dir)
    [] op = "debug" -> MsiDirectoryName_debug(dir)
    [] op = "display" -> MsiDirectoryName_display(dir)
    [] op = "long" -> long(LibName(recv))
    [] op = "short" -> short(LibName(recv))
    [] op = "name_combined" -> MsiName_combined(LibName(recv))
    [] op = "name_debug" -> MsiName_debug(LibName(recv))
    [] op = "name_display" -> MsiName_display(LibName(recv))

\* C10: the copy in main.rs and the copy in lib.rs return the same for
\* source(), target(), short(), long() and combined() (and the renderings)
\* on the directory name and on each derived name.
C10_CopiesAgree ==
  /\ last.copy = "main" => last.result = LibResult(last.op, last.recv)
  /\ srcView.derived /\ msrcView.derived => msrcView = srcView
  /\ tgtView.derived /\ mtgtView.derived => mtgtView = tgtView

C10_Witness ==
  /\ last.copy = "main" /\ last.op = "long" /\ last.recv = "target"
  /\ tgtView.derived /\ msrcView.derived
  /\ Has(input, Colon)
  /\ Has(After(input, Colon), Pipe)

====
